---- MODULE Spec2Model ----
(***************************************************************************)
(* A model of two components of k6:                                        *)
(*   - js/eventloop.go: the event loop (eventLoop.reserve, eventLoop.start  *)
(*     and eventLoop.wakeup), with one consumer inside start and any        *)
(*     number of producers holding commit closures;                         *)
(*   - stats/thresholds.go: the Thresholds aggregate (Threshold.run,        *)
(*     Thresholds.runAll, Thresholds.Run), its constructors, its JSON       *)
(*     encoding and the grammar of the threshold expressions.               *)
(* Every critical section of the event loop (lock ... unlock) is one        *)
(* action; every select statement is one action per case.                   *)
(***************************************************************************)
EXTENDS Integers, Sequences, FiniteSets, TLC

\* ------------------------------------------------------------------ bounds
\* The number of calls of start that the model follows.
MaxStarts == 2
\* The number of calls of reserve that the model follows.
MaxRes == 2
\* The same two numbers for the behaviours checked under fairness.
LiveStarts == 1
LiveRes == 2
\* The number of thresholds of a Thresholds aggregate.
MaxThresholds == 2
\* The number of fractional digits of a float64 that the model keeps.
FracDigits == 2
\* The length of the inputs given to ParseOperator.
MaxOperatorInput == 3

VARIABLES
    \* eventLoop's fields
    queue,          \* e.queue: the items waiting to be run
    started,        \* e.started: the generation counter
    reservedCount,  \* e.reservedCount
    wakeupCh,       \* e.wakeupCh: the number of tokens in the 1-slot channel
    \* the consumer, inside start
    done,           \* whether ctx.Done() of the current start is closed
    pc,             \* the consumer's position in start
    local,          \* start's local variable queue
    idx,            \* the position of the for loop over local
    ret,            \* the return statement the last start left by ("none"
                    \* while a start is running)
    \* the producers
    resv,           \* one record per call of reserve: its closure's state
    \* history
    appendLog,      \* every append to e.queue, with e.started at that time
    execLog,        \* every call f() of start, with e.started at that time
    \* Thresholds' fields
    thresholds,     \* ts.Thresholds
    abort,          \* ts.Abort
    sinked,         \* ts.sinked
    lastRun,        \* the arguments and results of the last Run
    \* the calls of the other functions
    call            \* the arguments and results of the last call

loopVars == <<queue, started, reservedCount, wakeupCh, done, pc, local, idx,
              ret, resv, appendLog, execLog>>
thVars == <<thresholds, abort, sinked, lastRun, call>>
vars == <<queue, started, reservedCount, wakeupCh, done, pc, local, idx,
          ret, resv, appendLog, execLog, thresholds, abort, sinked, lastRun,
          call>>

\* ============================================================ event loop

\* The work items: the f given to start number g, and the f given to the
\* commit closure of reserve number r.
Seed(g) == [k |-> "seed", n |-> g]
ResItem(r) == [k |-> "res", n |-> r]

\* newEventLoop: all fields zero, a channel of capacity 1 with no token.
LoopInit ==
    /\ queue = <<>>
    /\ started = 0
    /\ reservedCount = 0
    /\ wakeupCh = 0
    /\ done = FALSE
    /\ pc = "idle"
    /\ local = <<>>
    /\ idx = 0
    /\ ret = "none"
    /\ resv = <<>>
    /\ appendLog = <<>>
    /\ execLog = <<>>

\* e.queue = append(e.queue, f)
EnqueueFront(q, f) == <<f>> \o q
Enqueue(q, f) == Append(q, f)

\* e.wakeupCh <- struct{}{} with a default case: a send that never blocks.
WakeupDropped(ch) == ch
WakeupSend(ch) == IF ch = 0 THEN 1 ELSE ch

\* started != e.started, in the commit closure
StaleNever(r) == FALSE
Stale(r) == resv[r].gen # started

\* reserved := e.reservedCount != 0
ReservedIgnored == FALSE
Reserved == reservedCount # 0

\* e.queue = make([]func(), 0, len(queue))
KeepQueue(q) == q
FreshQueue(q) == <<>>

\* e.reservedCount = 0, in start
KeepReserved(n) == n
ResetReserved(n) == 0

\* The first part of reserve: one critical section.
TakeReservation(byItem) ==
    /\ Len(resv) < MaxRes
    /\ reservedCount' = reservedCount + 1
    /\ resv' = Append(resv, [gen |-> started, state |-> "pending",
                             byItem |-> byItem])
    /\ UNCHANGED <<queue, started, wakeupCh, done, pc, local, idx, ret,
                   appendLog, execLog>>

\* reserve called by a goroutine other than the consumer.
Reserve == TakeReservation(FALSE) /\ UNCHANGED thVars

\* reserve called by the work item that start is running.
ItemReserve == pc = "running" /\ TakeReservation(TRUE) /\ UNCHANGED thVars

\* The commit closure of reserve number r, up to its unlock. It is called
\* once, by the consumer's work item or by any other goroutine.
Commit(r) ==
    /\ resv[r].state = "pending"
    /\ IF Stale(r)
       THEN /\ resv' = [resv EXCEPT ![r].state = "refused"]
            /\ UNCHANGED <<queue, reservedCount, appendLog>>
       ELSE /\ queue' = Enqueue(queue, ResItem(r))
            /\ reservedCount' = reservedCount - 1
            /\ appendLog' = Append(appendLog,
                                   [item |-> ResItem(r), gen |-> started])
            /\ resv' = [resv EXCEPT ![r].state = "signal"]
    /\ UNCHANGED <<started, wakeupCh, done, pc, local, idx, ret, execLog>>
    /\ UNCHANGED thVars

\* The rest of an accepted commit: e.wakeup(), then return true.
Wakeup(r) ==
    /\ resv[r].state = "signal"
    /\ wakeupCh' = WakeupSend(wakeupCh)
    /\ resv' = [resv EXCEPT ![r].state = "accepted"]
    /\ UNCHANGED <<queue, started, reservedCount, done, pc, local, idx, ret,
                   appendLog, execLog>>
    /\ UNCHANGED thVars

\* The cancellation of the context given to the current start, by the work
\* item that is running or by any other goroutine.
Cancel ==
    /\ pc # "idle"
    /\ ~done
    /\ done' = TRUE
    /\ UNCHANGED <<queue, started, reservedCount, wakeupCh, pc, local, idx,
                   ret, resv, appendLog, execLog>>
    /\ UNCHANGED thVars

\* A return statement of start; the locals die with the call.
Return(kind) ==
    /\ pc' = "idle"
    /\ ret' = kind
    /\ local' = <<>>
    /\ idx' = 0

\* The first critical section of start. Each call is given a context that
\* is not cancelled yet.
StartCallKeep ==
    /\ pc = "idle"
    /\ started < MaxStarts
    /\ started' = started + 1
    /\ reservedCount' = KeepReserved(reservedCount)
    /\ queue' = Enqueue(queue, Seed(started + 1))
    /\ appendLog' = Append(appendLog,
                           [item |-> Seed(started + 1), gen |-> started + 1])
    /\ done' = FALSE
    /\ pc' = "check"
    /\ ret' = "none"
    /\ UNCHANGED <<wakeupCh, local, idx, resv, execLog>>
    /\ UNCHANGED thVars
StartCall ==
    /\ pc = "idle"
    /\ started < MaxStarts
    /\ started' = started + 1
    /\ reservedCount' = ResetReserved(reservedCount)
    /\ queue' = Enqueue(queue, Seed(started + 1))
    /\ appendLog' = Append(appendLog,
                           [item |-> Seed(started + 1), gen |-> started + 1])
    /\ done' = FALSE
    /\ pc' = "check"
    /\ ret' = "none"
    /\ UNCHANGED <<wakeupCh, local, idx, resv, execLog>>
    /\ UNCHANGED thVars

\* select { case <-done: return; default: } at the top of the loop
CheckDone ==
    /\ pc = "check"
    /\ IF done
       THEN Return("cancelTop")
       ELSE pc' = "acquire" /\ UNCHANGED <<local, idx, ret>>
    /\ UNCHANGED <<queue, started, reservedCount, wakeupCh, done, resv,
                   appendLog, execLog>>
    /\ UNCHANGED thVars

\* "acquire the queue": the critical section of the loop, and the test of
\* len(queue) and reserved on the values it read.
Acquire ==
    /\ pc = "acquire"
    /\ queue' = FreshQueue(queue)
    /\ IF Len(queue) = 0
       THEN IF ~Reserved
            THEN Return("empty")
            ELSE pc' = "wait" /\ UNCHANGED <<local, idx, ret>>
       ELSE /\ local' = queue
            /\ idx' = 1
            /\ pc' = "iter"
            /\ UNCHANGED ret
    /\ UNCHANGED <<started, reservedCount, wakeupCh, done, resv, appendLog,
                   execLog>>
    /\ UNCHANGED thVars

\* select { case <-done: return; case <-e.wakeupCh: }, the first case
WaitDoneNever == FALSE
WaitDone ==
    /\ pc = "wait"
    /\ done
    /\ Return("cancelWait")
    /\ UNCHANGED <<queue, started, reservedCount, wakeupCh, done, resv,
                   appendLog, execLog>>
    /\ UNCHANGED thVars

\* the second case, with a return once the token is received
WaitWakeupReturns ==
    /\ pc = "wait"
    /\ wakeupCh = 1
    /\ wakeupCh' = 0
    /\ Return("empty")
    /\ UNCHANGED <<queue, started, reservedCount, done, resv, appendLog,
                   execLog>>
    /\ UNCHANGED thVars

\* the second case: a token is received; the for loop has nothing to run
\* (the local queue is empty) and the outer loop starts over
WaitWakeup ==
    /\ pc = "wait"
    /\ wakeupCh = 1
    /\ wakeupCh' = 0
    /\ pc' = "check"
    /\ UNCHANGED <<queue, started, reservedCount, done, local, idx, ret, resv,
                   appendLog, execLog>>
    /\ UNCHANGED thVars

\* select { case <-done: return; default: f() }, the first case
IterCancel ==
    /\ pc = "iter"
    /\ idx <= Len(local)
    /\ done
    /\ Return("cancelItem")
    /\ UNCHANGED <<queue, started, reservedCount, wakeupCh, done, resv,
                   appendLog, execLog>>
    /\ UNCHANGED thVars

\* the default case: f() is called
IterRunUnchecked ==
    /\ pc = "iter"
    /\ idx <= Len(local)
    /\ pc' = "running"
    /\ execLog' = Append(execLog, [item |-> local[idx], gen |-> started])
    /\ UNCHANGED <<queue, started, reservedCount, wakeupCh, done, local, idx,
                   ret, resv, appendLog>>
    /\ UNCHANGED thVars
IterRun ==
    /\ pc = "iter"
    /\ idx <= Len(local)
    /\ ~done
    /\ pc' = "running"
    /\ execLog' = Append(execLog, [item |-> local[idx], gen |-> started])
    /\ UNCHANGED <<queue, started, reservedCount, wakeupCh, done, local, idx,
                   ret, resv, appendLog>>
    /\ UNCHANGED thVars

\* f() returns: the for loop goes on to the next item or, after the last
\* one, the outer loop starts over
ItemReturn ==
    /\ pc = "running"
    /\ IF idx < Len(local)
       THEN pc' = "iter" /\ idx' = idx + 1 /\ local' = local
       ELSE pc' = "check" /\ idx' = 0 /\ local' = <<>>
    /\ UNCHANGED <<queue, started, reservedCount, wakeupCh, done, ret,
                   resv, appendLog, execLog>>
    /\ UNCHANGED thVars

\* The steps of the goroutine that called start.
Consumer ==
    \/ CheckDone
    \/ Acquire
    \/ WaitDone
    \/ WaitWakeup
    \/ IterCancel
    \/ IterRun
    \/ ItemReturn

\* ============================================================ combinators

\* A rune sequence is a sequence of one-character strings. A Result is a
\* record: Payload, Nil (the payload is nil), Remaining, Err (an error is
\* set) and Expected (the expectations of the error).
Success(payload, remaining) ==
    [Payload |-> payload, Nil |-> FALSE, Remaining |-> remaining,
     Err |-> FALSE, Expected |-> {}]

SuccessNil(remaining) ==
    [Payload |-> "", Nil |-> TRUE, Remaining |-> remaining,
     Err |-> FALSE, Expected |-> {}]

Failure(input, expected) ==
    [Payload |-> "", Nil |-> TRUE, Remaining |-> input,
     Err |-> TRUE, Expected |-> expected]

\* string(runes)
RECURSIVE Str(_)
Str(runes) == IF runes = <<>> THEN "" ELSE Head(runes) \o Str(Tail(runes))

Drop(input, n) == SubSeq(input, n + 1, Len(input))

\* The length of the longest prefix of input made of runes of set.
RECURSIVE CountWhile(_, _)
CountWhile(set, input) ==
    IF input # <<>> /\ Head(input) \in set
    THEN 1 + CountWhile(set, Tail(input))
    ELSE 0

\* Char(c)
Char(c, input) ==
    IF input # <<>> /\ Head(input) = c
    THEN Success(c, Tail(input))
    ELSE Failure(input, {c})

\* input begins with the runes s.
HasPrefix(s, input) == Len(s) <= Len(input) /\ SubSeq(input, 1, Len(s)) = s

\* Tag(s), s given as its runes
Tag(s, input) ==
    IF HasPrefix(s, input)
    THEN Success(Str(s), Drop(input, Len(s)))
    ELSE Failure(input, {Str(s)})

\* TakeWhileOneOf(runes...)
TakeWhileOneOf(set, input) ==
    LET n == CountWhile(set, input)
    IN  IF n = 0
        THEN Failure(input, set)
        ELSE Success(Str(SubSeq(input, 1, n)), Drop(input, n))

\* Whitespace()
Whitespace(input) == TakeWhileOneOf({" ", "\t"}, input)

\* Alternative(p1, p2), given the results of p1 and p2 on the same input;
\* Alternative(p1, p2, ..., pn) is Alternative(p1, Alternative(p2, ...)).
Alternative(r1, r2) ==
    IF ~r1.Err
    THEN r1
    ELSE IF ~r2.Err
         THEN r2
         ELSE Failure(r1.Remaining, r1.Expected \cup r2.Expected)

\* Newline()
Newline(input) ==
    Alternative(Tag(<<"\r", "\n">>, input), Tag(<<"\n">>, input))

\* Sequence(p1, ..., pn) runs each p on what the one before it left. It is
\* written SequenceEnd(Then(... Then(SequenceStart(input), r1) ..., rn),
\* input), where rk is the result of pk on acc.Remaining: the payloads that
\* are not nil are collected in order, and the first failure is the result,
\* with the whole input remaining.
SequenceStart(input) == Success(<<>>, input)

Then(acc, r) ==
    IF acc.Err
    THEN acc
    ELSE IF r.Err
         THEN Failure(acc.Remaining, r.Expected)
         ELSE Success(IF r.Nil
                      THEN acc.Payload
                      ELSE Append(acc.Payload, r.Payload),
                      r.Remaining)

SequenceEnd(acc, input) ==
    IF acc.Err THEN Failure(input, acc.Expected) ELSE acc

\* DiscardAll(Whitespace())
RECURSIVE DiscardAllWhitespace(_)
DiscardAllWhitespace(input) ==
    LET r == Whitespace(input)
    IN  IF r.Err THEN SuccessNil(input) ELSE DiscardAllWhitespace(r.Remaining)

\* DiscardAll(Newline())
RECURSIVE DiscardAllNewline(_)
DiscardAllNewline(input) ==
    LET r == Newline(input)
    IN  IF r.Err THEN SuccessNil(input) ELSE DiscardAllNewline(r.Remaining)

\* Expect(p, label), given the result of p
Expect(result, label) ==
    IF result.Err THEN Failure(result.Remaining, {label}) ELSE result

\* A float64 is modelled as a whole number of units of 10^-FracDigits.
Scale == 10 ^ FracDigits

DigitRunes == <<"0", "1", "2", "3", "4", "5", "6", "7", "8", "9">>

DigitSet == {DigitRunes[k] : k \in DOMAIN DigitRunes}

DigitValue(c) == (CHOOSE k \in DOMAIN DigitRunes : DigitRunes[k] = c) - 1

\* The number written by a sequence of digits.
RECURSIVE Number(_)
Number(digits) ==
    IF digits = <<>>
    THEN 0
    ELSE 10 * Number(SubSeq(digits, 1, Len(digits) - 1))
            + DigitValue(digits[Len(digits)])

\* The value of the fractional digits, in units of 10^-FracDigits.
Fraction(digits) ==
    Number([k \in 1..FracDigits |->
                IF k <= Len(digits) THEN digits[k] ELSE "0"])

\* Float(): digit+ ('.' digit+)? with an optional leading '-'. whole is the
\* value of the first n runes of input, m the number of digits after the
\* '.' at the head of rest.
FloatFraction(whole, m, rest) ==
    IF m = 0
    THEN Success(whole, rest)
    ELSE Success(whole + Fraction(SubSeq(rest, 2, m + 1)), Drop(rest, m + 1))

FloatWhole(n, input) ==
    IF n = 0
    THEN Failure(input, {"float"})
    ELSE FloatFraction(Number(SubSeq(input, 1, n)) * Scale,
                       IF n < Len(input) /\ input[n + 1] = "."
                       THEN CountWhile(DigitSet, Drop(input, n + 1))
                       ELSE 0,
                       Drop(input, n))

FloatUnsigned(input) == FloatWhole(CountWhile(DigitSet, input), input)

FloatNegated(r, input) ==
    IF r.Err
    THEN Failure(input, r.Expected)
    ELSE Success(0 - r.Payload, r.Remaining)

Float(input) ==
    IF input # <<>> /\ Head(input) = "-"
    THEN FloatNegated(FloatUnsigned(Tail(input)), input)
    ELSE FloatUnsigned(input)

\* The decimal digits of a natural number.
RECURSIVE IntString(_)
IntString(n) ==
    IF n < 10
    THEN DigitRunes[n + 1]
    ELSE IntString(n \div 10) \o DigitRunes[(n % 10) + 1]

\* The digits of frac units of 10^-width, without the trailing zeros.
RECURSIVE FracString(_, _)
FracString(frac, width) ==
    IF frac = 0
    THEN ""
    ELSE DigitRunes[(frac \div (10 ^ (width - 1))) + 1]
            \o FracString(frac % (10 ^ (width - 1)), width - 1)

\* fmt.Sprintf("%g", v) for v >= 0
FormatPositive(v) ==
    IF v % Scale = 0
    THEN IntString(v \div Scale)
    ELSE IntString(v \div Scale) \o "." \o FracString(v % Scale, FracDigits)

\* fmt.Sprintf("%g", v): the shortest decimal that reads back as v
FormatG(v) ==
    IF v < 0 THEN "-" \o FormatPositive(0 - v) ELSE FormatPositive(v)

\* ================================================================ grammar

\* ParseCounter
ParseCounter(input) ==
    Expect(Alternative(Tag(<<"c", "o", "u", "n", "t">>, input),
                       Tag(<<"r", "a", "t", "e">>, input)),
           "counter aggregation method")

\* ParseGauge
ParseGauge(input) ==
    Expect(Tag(<<"v", "a", "l", "u", "e">>, input),
           "gauge aggregation method")

\* ParseRate
ParseRate(input) ==
    Expect(Tag(<<"r", "a", "t", "e">>, input), "rate aggregation method")

\* The children of ParsePercentile's Sequence.
ThenTagP(acc) == Then(acc, Tag(<<"p", "(">>, acc.Remaining))
ThenFloat(acc) == Then(acc, Float(acc.Remaining))
ThenClose(acc) == Then(acc, Char(")", acc.Remaining))

\* fmt.Sprintf("%s%g%s", parsed[0], parsed[1], parsed[2])
PercentileString(res) ==
    IF res.Err
    THEN res
    ELSE Success(res.Payload[1] \o FormatG(res.Payload[2]) \o res.Payload[3],
                 res.Remaining)

\* ParsePercentile
ParsePercentile(input) ==
    PercentileString(
        Expect(SequenceEnd(ThenClose(ThenFloat(ThenTagP(
                    SequenceStart(input)))), input),
               "percentile"))

\* ParseTrend
ParseTrend(input) ==
    Expect(Alternative(Tag(<<"m", "e", "a", "n">>, input),
           Alternative(Tag(<<"m", "i", "n">>, input),
           Alternative(Tag(<<"m", "a", "x">>, input),
           Alternative(Tag(<<"a", "v", "g">>, input),
           Alternative(Tag(<<"m", "e", "d">>, input),
                       ParsePercentile(input)))))),
           "trend aggregation method")

\* ParseAggregationMethod
ParseAggregationMethod(input) ==
    Expect(Alternative(ParseCounter(input),
           Alternative(ParseGauge(input),
           Alternative(ParseRate(input),
           Alternative(ParseTrend(input),
                       ParsePercentile(input))))),
           "aggregation method")

\* ParseOperator with the shorter operators tried first.
ParseOperatorShortestFirst(input) ==
    Expect(Alternative(Tag(<<">">>, input),
           Alternative(Tag(<<"<">>, input),
           Alternative(Tag(<<">", "=">>, input),
           Alternative(Tag(<<"<", "=">>, input),
           Alternative(Tag(<<"=", "=">>, input),
           Alternative(Tag(<<"=", "=", "=">>, input),
                       Tag(<<"!", "=">>, input))))))),
           "operator")

\* ParseOperator
ParseOperator(input) ==
    Expect(Alternative(Tag(<<">", "=">>, input),
           Alternative(Tag(<<"<", "=">>, input),
           Alternative(Tag(<<">">>, input),
           Alternative(Tag(<<"<">>, input),
           Alternative(Tag(<<"=", "=", "=">>, input),
           Alternative(Tag(<<"=", "=">>, input),
                       Tag(<<"!", "=">>, input))))))),
           "operator")

\* ParseValue with a value that may be left out.
ParseValueOptional(input) ==
    IF Float(input).Err THEN Success(0, input) ELSE Float(input)

\* ParseValue
ParseValue(input) == Expect(Float(input), "numerical value")

\* The children of ParseAssertion's Sequence.
ThenMethod(acc) == Then(acc, ParseAggregationMethod(acc.Remaining))
ThenWhitespace(acc) == Then(acc, DiscardAllWhitespace(acc.Remaining))
ThenOperator(acc) == Then(acc, ParseOperator(acc.Remaining))
ThenValue(acc) == Then(acc, ParseValue(acc.Remaining))
ThenNewline(acc) == Then(acc, DiscardAllNewline(acc.Remaining))

\* ParseAssertion
ParseAssertion(input) ==
    SequenceEnd(ThenNewline(ThenValue(ThenWhitespace(ThenOperator(
                    ThenWhitespace(ThenMethod(SequenceStart(input))))))),
                input)

\* The unpacking of parseThresholdCondition: (condition, err)
ConditionOf(result) ==
    IF result.Err \/ Len(result.Payload) # 3
    THEN [err |-> TRUE]
    ELSE [err |-> FALSE,
          condition |-> [AggregationMethod |-> result.Payload[1],
                         Operator |-> result.Payload[2],
                         Value |-> result.Payload[3]]]

\* parseThresholdCondition with an error when the parser leaves runes.
parseThresholdConditionWhole(expression) ==
    IF ParseAssertion(expression).Remaining # <<>>
    THEN [err |-> TRUE]
    ELSE ConditionOf(ParseAssertion(expression))

\* parseThresholdCondition: (condition, err)
parseThresholdCondition(expression) == ConditionOf(ParseAssertion(expression))

\* ============================================================ thresholds

\* The aggregation methods of the thresholds and the keys of the sinks.
Methods == {"rate", "p(95)"}

\* The sources of the thresholds of an aggregate: "rate<1" and "p(95)>1".
Sources ==
    {<<"r", "a", "t", "e", "<", "1">>,
     <<"p", "(", "9", "5", ")", ">", "1">>}

\* The conditions of the thresholds of an aggregate, as parsed from Sources.
Conditions == {parseThresholdCondition(src).condition : src \in Sources}

\* The values a sink may hold for a key: below, equal to and above the
\* value of the conditions (a comparison depends on nothing else).
SinkValues == {0, Scale, 2 * Scale}

\* The test times given to Run: before, at and after the grace period of
\* the thresholds that have one (the comparison depends on nothing else).
Durations == {0, 1, 2}

\* types.NullDuration: the zero value, or a valid duration.
NullDurations ==
    {[Valid |-> FALSE, Duration |-> 0], [Valid |-> TRUE, Duration |-> 1]}

\* thresholdConfig
Configs ==
    [Threshold : Sources,
     AbortOnFail : BOOLEAN,
     AbortGracePeriod : NullDurations]

\* The values of map[string]float64 over the keys Methods.
Sinks == UNION {[keys -> SinkValues] : keys \in SUBSET Methods}

\* newThreshold: (t, err)
newThreshold(src, abortOnFail, gracePeriod) ==
    LET p == parseThresholdCondition(src)
    IN  IF p.err
        THEN [err |-> TRUE]
        ELSE [err |-> FALSE,
              t |-> [Source |-> src,
                     LastFailed |-> FALSE,
                     AbortOnFail |-> abortOnFail,
                     AbortGracePeriod |-> gracePeriod,
                     parsed |-> p.condition]]

\* Thresholds{}
ThresholdsZero == [Thresholds |-> <<>>, Abort |-> FALSE, sinked |-> <<>>]

\* The loop of newThresholdsWithConfig, returning at the last config that
\* fails instead of the first.
RECURSIVE newThresholdsBackFrom(_, _, _)
newThresholdsBackFrom(i, configs, built) ==
    IF i < 1
    THEN [ts |-> [Thresholds |-> built, Abort |-> FALSE, sinked |-> <<>>],
          err |-> FALSE]
    ELSE LET config == configs[i]
             r == newThreshold(config.Threshold, config.AbortOnFail,
                               config.AbortGracePeriod)
         IN  IF r.err
             THEN [ts |-> ThresholdsZero, err |-> TRUE, index |-> i - 1]
             ELSE newThresholdsBackFrom(i - 1, configs, <<r.t>> \o built)

newThresholdsLastError(configs) ==
    newThresholdsBackFrom(Len(configs), configs, <<>>)

\* The loop of newThresholdsWithConfig from config number i on (the error
\* names the index of the config, counted from 0).
RECURSIVE newThresholdsFrom(_, _, _)
newThresholdsFrom(i, configs, built) ==
    IF i > Len(configs)
    THEN [ts |-> [Thresholds |-> built, Abort |-> FALSE, sinked |-> <<>>],
          err |-> FALSE]
    ELSE LET config == configs[i]
             r == newThreshold(config.Threshold, config.AbortOnFail,
                               config.AbortGracePeriod)
         IN  IF r.err
             THEN [ts |-> ThresholdsZero, err |-> TRUE, index |-> i - 1]
             ELSE newThresholdsFrom(i + 1, configs, Append(built, r.t))

\* newThresholdsWithConfig: (ts, err)
newThresholdsWithConfig(configs) == newThresholdsFrom(1, configs, <<>>)

\* NewThresholds: (ts, err)
NewThresholds(sources) ==
    newThresholdsWithConfig(
        [i \in 1..Len(sources) |->
            [Threshold |-> sources[i],
             AbortOnFail |-> FALSE,
             AbortGracePeriod |-> [Valid |-> FALSE, Duration |-> 0]]])

\* The zero value of Thresholds, on which Run was never called.
ZeroValue ==
    /\ thresholds = ThresholdsZero.Thresholds
    /\ abort = ThresholdsZero.Abort
    /\ sinked = ThresholdsZero.sinked
    /\ lastRun = [ran |-> FALSE]

ThZero == ZeroValue /\ call = [op |-> "none"]

\* A Thresholds value as newThresholdsWithConfig returns it.
ThInit ==
    /\ \E n \in 0..MaxThresholds : \E configs \in [1..n -> Configs] :
        LET ts == newThresholdsWithConfig(configs).ts
        IN  /\ thresholds = ts.Thresholds
            /\ abort = ts.Abort
            /\ sinked = ts.sinked
    /\ lastRun = [ran |-> FALSE]
    /\ call = [op |-> "none"]

\* The switch of Threshold.runNoTaint with a "===" that never holds.
CompareStrictNever(op, lhs, rhs) ==
    CASE op = ">" -> lhs > rhs
      [] op = ">=" -> lhs >= rhs
      [] op = "<=" -> lhs <= rhs
      [] op = "<" -> lhs < rhs
      [] op = "==" -> lhs = rhs
      [] op = "===" -> FALSE
      [] op = "!=" -> lhs # rhs

\* The switch of Threshold.runNoTaint on the operator.
Compare(op, lhs, rhs) ==
    CASE op = ">" -> lhs > rhs
      [] op = ">=" -> lhs >= rhs
      [] op = "<=" -> lhs <= rhs
      [] op = "<" -> lhs < rhs
      [] op = "==" -> lhs = rhs
      [] op = "===" -> lhs = rhs
      [] op = "!=" -> lhs # rhs

\* runNoTaint, writing LastFailed as run does.
runNoTaintTainting(t, sinks) ==
    IF t.parsed.AggregationMethod \notin DOMAIN sinks
    THEN [t |-> [t EXCEPT !.LastFailed = TRUE], passes |-> FALSE,
          err |-> TRUE]
    ELSE LET passes == Compare(t.parsed.Operator,
                               sinks[t.parsed.AggregationMethod],
                               t.parsed.Value)
         IN  [t |-> [t EXCEPT !.LastFailed = ~passes], passes |-> passes,
              err |-> FALSE]

\* Threshold.runNoTaint: the threshold after the call, and (passes, err)
runNoTaint(t, sinks) ==
    IF t.parsed.AggregationMethod \notin DOMAIN sinks
    THEN [t |-> t, passes |-> FALSE, err |-> TRUE]
    ELSE IF t.parsed.Operator \notin {">", ">=", "<=", "<", "==", "===", "!="}
         THEN [t |-> t, passes |-> FALSE, err |-> TRUE]
         ELSE [t |-> t,
               passes |-> Compare(t.parsed.Operator,
                                  sinks[t.parsed.AggregationMethod],
                                  t.parsed.Value),
               err |-> FALSE]

\* Threshold.run, leaving LastFailed alone when runNoTaint returns an error.
runTaintUnlessError(t, sinks) ==
    LET r == runNoTaint(t, sinks)
    IN  [t |-> IF r.err THEN r.t ELSE [r.t EXCEPT !.LastFailed = ~r.passes],
         passes |-> r.passes, err |-> r.err]

\* Threshold.run, returning no error.
runNoError(t, sinks) ==
    LET r == runNoTaint(t, sinks)
    IN  [t |-> [r.t EXCEPT !.LastFailed = ~r.passes],
         passes |-> r.passes, err |-> FALSE]

\* Threshold.run, never clearing LastFailed.
runSticky(t, sinks) ==
    LET r == runNoTaint(t, sinks)
    IN  [t |-> [r.t EXCEPT !.LastFailed = t.LastFailed \/ ~r.passes],
         passes |-> r.passes, err |-> r.err]

\* Threshold.run: the threshold after the call, and (passes, err)
run(t, sinks) ==
    LET r == runNoTaint(t, sinks)
    IN  [t |-> [r.t EXCEPT !.LastFailed = ~r.passes],
         passes |-> r.passes, err |-> r.err]

\* !threshold.AbortGracePeriod.Valid ||
\*     threshold.AbortGracePeriod.Duration < types.Duration(duration)
GraceElapsedOrNow(t, duration) ==
    ~t.AbortGracePeriod.Valid \/ t.AbortGracePeriod.Duration <= duration
GraceElapsed(t, duration) ==
    ~t.AbortGracePeriod.Valid \/ t.AbortGracePeriod.Duration < duration

\* ts.Abort || !threshold.AbortOnFail: a failed threshold leaves Abort as
\* it is.
KeepsAbortUnlatched(ab, t) == ~t.AbortOnFail
KeepsAbort(ab, t) == ab \/ ~t.AbortOnFail

\* Thresholds.runAll from threshold number i on: the thresholds, Abort and
\* the two results.
RECURSIVE runAllFrom(_, _, _, _, _, _)
runAllFrom(i, ths, ab, succeeded, duration, sinks) ==
    IF i > Len(ths)
    THEN [Thresholds |-> ths, Abort |-> ab, ok |-> succeeded, err |-> FALSE]
    ELSE LET r == run(ths[i], sinks)
             ran == [ths EXCEPT ![i] = r.t]
         IN  IF r.err
             THEN [Thresholds |-> ran, Abort |-> ab, ok |-> FALSE,
                   err |-> TRUE]
             ELSE IF r.passes
             THEN runAllFrom(i + 1, ran, ab, succeeded, duration, sinks)
             ELSE IF KeepsAbort(ab, ths[i])
             THEN runAllFrom(i + 1, ran, ab, FALSE, duration, sinks)
             ELSE runAllFrom(i + 1, ran, GraceElapsed(ths[i], duration),
                             FALSE, duration, sinks)

\* runAll with succeeded starting as false.
runAllFromFalse(ths, ab, duration, sinks) ==
    runAllFrom(1, ths, ab, FALSE, duration, sinks)

runAll(ths, ab, duration, sinks) ==
    runAllFrom(1, ths, ab, TRUE, duration, sinks)

\* ts.sinked after the first lines of Run, with the pairs of f written
\* over the old map.
MergeSinked(old, f) ==
    [k \in DOMAIN old \cup DOMAIN f |->
        IF k \in DOMAIN f THEN f[k] ELSE old[k]]

\* ts.sinked after the first lines of Run: a new map, and the pairs of f
\* written into it.
FreshSinked(old, f) == [k \in DOMAIN f |-> f[k]]

\* Thresholds.Run(sink, duration), where sink.Format(duration) is f
Run(f, duration) ==
    LET res == runAll(thresholds, abort, duration, FreshSinked(sinked, f))
    IN  /\ sinked' = FreshSinked(sinked, f)
        /\ thresholds' = res.Thresholds
        /\ abort' = res.Abort
        /\ lastRun' = [ran |-> TRUE, duration |-> duration,
                       abortBefore |-> abort, ok |-> res.ok, err |-> res.err]
        /\ call' = [op |-> "Run", sink |-> f]
        /\ UNCHANGED loopVars

\* ================================================================== JSON

\* A JSON text is modelled by the value it denotes: a record with its kind
\* and, by kind, the runes of a string, a boolean, the elements of an array
\* or the fields of an object ("invalid": a text that is not JSON).
JsonNull == [kind |-> "null"]
JsonString(runes) == [kind |-> "string", runes |-> runes]
JsonBool(b) == [kind |-> "bool", bool |-> b]
JsonNumber(n) == [kind |-> "number", number |-> n]
JsonArray(elems) == [kind |-> "array", elems |-> elems]
JsonObject(fields) == [kind |-> "object", fields |-> fields]
JsonInvalid == [kind |-> "invalid"]

\* The runes of the decimal digits of a natural number.
RECURSIVE IntRunes(_)
IntRunes(n) ==
    IF n < 10
    THEN <<DigitRunes[n + 1]>>
    ELSE Append(IntRunes(n \div 10), DigitRunes[(n % 10) + 1])

\* types.Duration.String, for a whole number of seconds below a minute
DurationString(d) == Append(IntRunes(d), "s")

\* time.ParseDuration, for a whole number of seconds: (d, err)
ParseDuration(runes) ==
    LET n == CountWhile(DigitSet, runes)
    IN  IF n >= 1 /\ Drop(runes, n) = <<"s">>
        THEN [err |-> FALSE, d |-> Number(SubSeq(runes, 1, n))]
        ELSE [err |-> TRUE]

\* types.NullDuration.MarshalJSON
NullDurationMarshalJSON(d) ==
    IF d.Valid THEN JsonString(DurationString(d.Duration)) ELSE JsonNull

\* types.NullDuration.UnmarshalJSON: (d, err)
NullDurationUnmarshalJSON(data) ==
    IF data.kind = "null"
    THEN [err |-> FALSE, d |-> [Valid |-> FALSE, Duration |-> 0]]
    ELSE IF data.kind = "string" /\ ~ParseDuration(data.runes).err
         THEN [err |-> FALSE,
               d |-> [Valid |-> TRUE,
                      Duration |-> ParseDuration(data.runes).d]]
         ELSE [err |-> TRUE]

\* thresholdConfig.MarshalJSON with the object form for every config.
thresholdConfigMarshalObject(tc) ==
    JsonObject([threshold |-> JsonString(tc.Threshold),
                abortOnFail |-> JsonBool(tc.AbortOnFail),
                delayAbortEval |->
                    NullDurationMarshalJSON(tc.AbortGracePeriod)])

\* thresholdConfig.MarshalJSON
thresholdConfigMarshalJSON(tc) ==
    IF tc.AbortOnFail
    THEN JsonObject([threshold |-> JsonString(tc.Threshold),
                     abortOnFail |-> JsonBool(tc.AbortOnFail),
                     delayAbortEval |->
                        NullDurationMarshalJSON(tc.AbortGracePeriod)])
    ELSE JsonString(tc.Threshold)

\* json.Unmarshal of an object into rawThresholdConfig: a field that is
\* absent or null leaves the zero value. (tc, err)
rawThresholdConfigUnmarshal(fields) ==
    LET has(name) == name \in DOMAIN fields /\ fields[name].kind # "null"
        delay == IF has("delayAbortEval")
                 THEN NullDurationUnmarshalJSON(fields["delayAbortEval"])
                 ELSE [err |-> FALSE, d |-> [Valid |-> FALSE, Duration |-> 0]]
    IN  IF \/ has("threshold") /\ fields["threshold"].kind # "string"
           \/ has("abortOnFail") /\ fields["abortOnFail"].kind # "bool"
           \/ delay.err
        THEN [err |-> TRUE]
        ELSE [err |-> FALSE,
              tc |-> [Threshold |-> IF has("threshold")
                                    THEN fields["threshold"].runes
                                    ELSE <<>>,
                      AbortOnFail |-> IF has("abortOnFail")
                                      THEN fields["abortOnFail"].bool
                                      ELSE FALSE,
                      AbortGracePeriod |-> delay.d]]

\* thresholdConfig.UnmarshalJSON: (tc, err)
thresholdConfigUnmarshalJSON(data) ==
    IF data.kind \in {"string", "null"}
    THEN [err |-> FALSE,
          tc |-> [Threshold |-> IF data.kind = "string"
                                THEN data.runes
                                ELSE <<>>,
                  AbortOnFail |-> FALSE,
                  AbortGracePeriod |-> [Valid |-> FALSE, Duration |-> 0]]]
    ELSE IF data.kind = "object"
         THEN rawThresholdConfigUnmarshal(data.fields)
         ELSE [err |-> TRUE]

\* Thresholds.MarshalJSON without the copy of AbortGracePeriod.
ThresholdsMarshalJSONNoGrace(ts) ==
    JsonArray([i \in 1..Len(ts.Thresholds) |->
        thresholdConfigMarshalJSON(
            [Threshold |-> ts.Thresholds[i].Source,
             AbortOnFail |-> ts.Thresholds[i].AbortOnFail,
             AbortGracePeriod |-> [Valid |-> FALSE, Duration |-> 0]])])

\* Thresholds.MarshalJSON
ThresholdsMarshalJSON(ts) ==
    JsonArray([i \in 1..Len(ts.Thresholds) |->
        thresholdConfigMarshalJSON(
            [Threshold |-> ts.Thresholds[i].Source,
             AbortOnFail |-> ts.Thresholds[i].AbortOnFail,
             AbortGracePeriod |-> ts.Thresholds[i].AbortGracePeriod])])

\* json.Unmarshal(data, &configs): (configs, err)
ConfigsUnmarshal(data) ==
    IF data.kind = "null"
    THEN [err |-> FALSE, configs |-> <<>>]
    ELSE IF data.kind # "array"
            \/ \E i \in DOMAIN data.elems :
                    thresholdConfigUnmarshalJSON(data.elems[i]).err
         THEN [err |-> TRUE]
         ELSE [err |-> FALSE,
               configs |-> [i \in DOMAIN data.elems |->
                               thresholdConfigUnmarshalJSON(data.elems[i]).tc]]

\* Thresholds.UnmarshalJSON with *ts = newts before the check of err.
ThresholdsUnmarshalJSONAssignFirst(ts, data) ==
    LET c == ConfigsUnmarshal(data)
    IN  IF c.err
        THEN [ts |-> ts, err |-> TRUE]
        ELSE [ts |-> newThresholdsWithConfig(c.configs).ts,
              err |-> newThresholdsWithConfig(c.configs).err]

\* Thresholds.UnmarshalJSON: the receiver after the call, and err
ThresholdsUnmarshalJSON(ts, data) ==
    LET c == ConfigsUnmarshal(data)
    IN  IF c.err
        THEN [ts |-> ts, err |-> TRUE]
        ELSE LET new == newThresholdsWithConfig(c.configs)
             IN  IF new.err
                 THEN [ts |-> ts, err |-> TRUE]
                 ELSE [ts |-> new.ts, err |-> FALSE]

\* The Thresholds value held by the variables.
Receiver == [Thresholds |-> thresholds, Abort |-> abort, sinked |-> sinked]

\* data, err := ts.MarshalJSON()
MarshalJSONCall ==
    /\ call' = [op |-> "MarshalJSON", data |-> ThresholdsMarshalJSON(Receiver)]
    /\ UNCHANGED <<thresholds, abort, sinked, lastRun>>
    /\ UNCHANGED loopVars

\* err := ts.UnmarshalJSON(data); own: data is what ts.MarshalJSON returned
UnmarshalJSONCall(data, own) ==
    LET res == ThresholdsUnmarshalJSON(Receiver, data)
    IN  /\ thresholds' = res.ts.Thresholds
        /\ abort' = res.ts.Abort
        /\ sinked' = res.ts.sinked
        /\ call' = [op |-> "UnmarshalJSON", data |-> data, own |-> own,
                    before |-> Receiver, err |-> res.err]
        /\ UNCHANGED lastRun
        /\ UNCHANGED loopVars

\* ============================================= calls of the pure functions

\* The runes of the inputs given to ParseOperator.
OperatorAlphabet == {">", "<", "=", "!", "1"}

OperatorInputs ==
    UNION {[1..n -> OperatorAlphabet] : n \in 0..MaxOperatorInput}

\* The sources given to NewThresholds: the two of Sources, "=" and "rate&1".
SourceInputs ==
    Sources \cup {<<"=">>, <<"r", "a", "t", "e", "&", "1">>}

\* The expressions given to parseThresholdCondition are made of five
\* parts: a method or a word in its place (count, rate, value, mean, min,
\* max, avg, med, p(95), p(9.5); foo, mad, 1+1, p(95 and nothing), blanks,
\* an operator or a word in its place (&, = and nothing), blanks, a value
\* or a word in its place (100, 2, 1.5, -5; false, rate and nothing), and what
\* follows the assertion.
MethodTexts ==
    {<<"c", "o", "u", "n", "t">>, <<"r", "a", "t", "e">>,
     <<"v", "a", "l", "u", "e">>, <<"m", "e", "a", "n">>, <<"m", "i", "n">>,
     <<"m", "a", "x">>, <<"a", "v", "g">>, <<"m", "e", "d">>,
     <<"p", "(", "9", "5", ")">>, <<"p", "(", "9", ".", "5", ")">>,
     <<"f", "o", "o">>, <<"m", "a", "d">>, <<"1", "+", "1">>,
     <<"p", "(", "9", "5">>, <<>>}

BlankTexts == {<<>>, <<" ", "\t">>}

OperatorTexts ==
    {<<">">>, <<">", "=">>, <<"<", "=">>, <<"<">>, <<"=", "=">>,
     <<"=", "=", "=">>, <<"!", "=">>, <<"&">>, <<"=">>, <<>>}

ValueTexts ==
    {<<"1", "0", "0">>, <<"2">>, <<"1", ".", "5">>, <<"-", "5">>,
     <<"f", "a", "l", "s", "e">>, <<"r", "a", "t", "e">>, <<>>}

TrailingTexts == {<<>>, <<" ">>, <<"\n">>, <<"x">>}

Expressions ==
    {m \o b1 \o o \o b2 \o v \o t :
        m \in MethodTexts, b1 \in BlankTexts, o \in OperatorTexts,
        b2 \in BlankTexts, v \in ValueTexts, t \in TrailingTexts}

\* The operators of the Threshold values built field by field: the seven
\* of the grammar and "&".
LiteralOperators ==
    {<<">">>, <<">", "=">>, <<"<", "=">>, <<"<">>, <<"=", "=">>,
     <<"=", "=", "=">>, <<"!", "=">>, <<"&">>}

\* &Threshold{Source: ..., parsed: &thresholdCondition{"rate", op, value}}
ThresholdLiteral(op, value) ==
    [Source |-> <<"r", "a", "t", "e">> \o op \o IntRunes(value \div Scale),
     LastFailed |-> FALSE,
     AbortOnFail |-> FALSE,
     AbortGracePeriod |-> [Valid |-> TRUE, Duration |-> 1],
     parsed |-> [AggregationMethod |-> "rate",
                 Operator |-> Str(op),
                 Value |-> value]]

\* A call waiting to be made: its arguments. A Threshold built field by
\* field is there to be run from the start.
Pending ==
    \/ \E op \in LiteralOperators : \E value \in SinkValues :
        call = [op |-> "Threshold", done |-> TRUE,
                t |-> ThresholdLiteral(op, value)]
    \/ \E expression \in Expressions :
        call = [op |-> "parseThresholdCondition", done |-> FALSE,
                expression |-> expression]
    \/ \E input \in OperatorInputs :
        call = [op |-> "ParseOperator", done |-> FALSE, input |-> input]
    \/ \E n \in 0..MaxThresholds : \E sources \in [1..n -> SourceInputs] :
        call = [op |-> "NewThresholds", done |-> FALSE, sources |-> sources]
    \/ \E config \in Configs :
        call = [op |-> "newThreshold", done |-> FALSE, config |-> config]

Frame == UNCHANGED <<thresholds, abort, sinked, lastRun>> /\ UNCHANGED loopVars

\* result := ParseOperator()(input)
ParseOperatorCall ==
    /\ call.op = "ParseOperator" /\ ~call.done
    /\ call' = [op |-> "ParseOperator", done |-> TRUE, input |-> call.input,
                result |-> ParseOperator(call.input)]
    /\ Frame

\* condition, err := parseThresholdCondition(expression)
parseThresholdConditionCall ==
    /\ call.op = "parseThresholdCondition" /\ ~call.done
    /\ call' = [op |-> "parseThresholdCondition", done |-> TRUE,
                expression |-> call.expression,
                result |-> parseThresholdCondition(call.expression)]
    /\ Frame

\* ts, err := NewThresholds(sources)
NewThresholdsCall ==
    /\ call.op = "NewThresholds" /\ ~call.done
    /\ call' = [op |-> "NewThresholds", done |-> TRUE,
                sources |-> call.sources,
                result |-> NewThresholds(call.sources)]
    /\ Frame

\* t, err := newThreshold(src, abortOnFail, gracePeriod)
newThresholdCall ==
    /\ call.op = "newThreshold" /\ ~call.done
    /\ LET r == newThreshold(call.config.Threshold, call.config.AbortOnFail,
                             call.config.AbortGracePeriod)
       IN  /\ ~r.err
           /\ call' = [op |-> "newThreshold", done |-> TRUE, t |-> r.t]
    /\ Frame

\* The threshold t of the last call is there to be run.
HasThreshold ==
    call.done /\ call.op \in {"Threshold", "newThreshold", "run", "runNoTaint"}

\* passes, err := t.run(sinks)
runCall(sinks) ==
    /\ HasThreshold
    /\ LET r == run(call.t, sinks)
       IN  call' = [op |-> "run", done |-> TRUE, before |-> call.t,
                    sinks |-> sinks, t |-> r.t, passes |-> r.passes,
                    err |-> r.err]
    /\ Frame

\* passes, err := t.runNoTaint(sinks)
runNoTaintCall(sinks) ==
    /\ HasThreshold
    /\ LET r == runNoTaint(call.t, sinks)
       IN  call' = [op |-> "runNoTaint", done |-> TRUE, before |-> call.t,
                    sinks |-> sinks, t |-> r.t, passes |-> r.passes,
                    err |-> r.err]
    /\ Frame

\* ======================================================== specifications

Init == LoopInit /\ ThZero

Next ==
    \/ StartCall
    \/ Consumer
    \/ Reserve
    \/ ItemReserve
    \/ \E r \in 1..Len(resv) : Commit(r)
    \/ \E r \in 1..Len(resv) : Wakeup(r)
    \/ Cancel

Spec == Init /\ [][Next]_vars

\* The Thresholds aggregate alone: any sequence of calls of Run.
ThresholdsInit == LoopInit /\ ThInit

ThresholdsNext == \E f \in Sinks : \E duration \in Durations : Run(f, duration)

ThresholdsSpec == ThresholdsInit /\ [][ThresholdsNext]_vars

\* The event loop within the smaller bounds.
FairNext ==
    \/ StartCall /\ started' <= LiveStarts
    \/ Consumer
    \/ Reserve /\ Len(resv') <= LiveRes
    \/ ItemReserve /\ Len(resv') <= LiveRes
    \/ \E r \in 1..Len(resv) : Commit(r)
    \/ \E r \in 1..Len(resv) : Wakeup(r)
    \/ Cancel

\* The Go scheduler runs the goroutine inside start whenever it can take a
\* step, and a work item returns. Nothing makes a producer call its commit
\* closure, and nothing makes anybody cancel the context.
FairSpec == Init /\ [][FairNext]_vars /\ WF_vars(Consumer)

\* The parser, the constructors and one Threshold: each call of Pending is
\* made once, and the threshold that newThreshold returns is run any number
\* of times.
EvalInit == LoopInit /\ ZeroValue /\ Pending

EvalNext ==
    \/ ParseOperatorCall
    \/ parseThresholdConditionCall
    \/ NewThresholdsCall
    \/ newThresholdCall
    \/ \E sinks \in Sinks : runCall(sinks)
    \/ \E sinks \in Sinks : runNoTaintCall(sinks)

EvalSpec == EvalInit /\ [][EvalNext]_vars

\* The sinks and the test time given to Run between the calls of
\* MarshalJSON and UnmarshalJSON: every key at the same value, after the
\* grace period of every threshold.
JsonSinks == {f \in [Methods -> SinkValues] : \A k, m \in Methods : f[k] = f[m]}

JsonDuration == CHOOSE d \in Durations : \A e \in Durations : e <= d

\* The JSON texts given to UnmarshalJSON besides the output of MarshalJSON:
\* 42, a text that is not JSON, ["="], ["rate<1",{"threshold":"p(95)>1"}],
\* [{"threshold":"rate<1","abortOnFail":false,"delayAbortEval":"1s"}] and
\* [{"threshold":1}].
JsonInputs ==
    <<JsonNumber(42),
      JsonInvalid,
      JsonArray(<<JsonString(<<"=">>)>>),
      JsonArray(<<JsonString(<<"r", "a", "t", "e", "<", "1">>),
                  JsonObject([threshold |->
                      JsonString(<<"p", "(", "9", "5", ")", ">", "1">>)])>>),
      JsonArray(<<JsonObject(
          [threshold |-> JsonString(<<"r", "a", "t", "e", "<", "1">>),
           abortOnFail |-> JsonBool(FALSE),
           delayAbortEval |-> JsonString(<<"1", "s">>)])>>),
      JsonArray(<<JsonObject([threshold |-> JsonNumber(1)])>>)>>

\* The Thresholds aggregate with its JSON encoding.
JsonInit == LoopInit /\ ThInit

JsonNext ==
    \/ \E f \in JsonSinks : Run(f, JsonDuration)
    \/ MarshalJSONCall
    \/ call.op = "MarshalJSON" /\ UnmarshalJSONCall(call.data, TRUE)
    \/ \E k \in DOMAIN JsonInputs : UnmarshalJSONCall(JsonInputs[k], FALSE)

JsonSpec == JsonInit /\ [][JsonNext]_vars

\* ================================================================ claims

Executed(item) == \E p \in DOMAIN execLog : execLog[p].item = item

\* The start that took reservation r has returned.
StartReturned(r) == resv[r].gen < started \/ pc = "idle"

\* The commit closure of reservation r is called in this step.
CommitCalled(r) == resv[r].state = "pending" /\ resv'[r].state # "pending"

\* C1: an item appended to the queue under generation g, the generation of
\* a start, is never executed by a later start.
C1_ExecutedInOwnGeneration ==
    \A p \in DOMAIN execLog : \A a \in DOMAIN appendLog :
        (appendLog[a].item = execLog[p].item /\ appendLog[a].gen >= 1)
            => execLog[p].gen <= appendLog[a].gen

\* C2: a commit closure taken under generation g and called when the
\* generation counter is no longer g returns false, appends nothing, leaves
\* reservedCount alone and sends no wakeup, and its item is never executed.
C2_StaleCommitRefused ==
    /\ [][\A r \in DOMAIN resv :
            (CommitCalled(r) /\ resv[r].gen # started)
                => /\ resv'[r].state = "refused"
                   /\ queue' = queue
                   /\ appendLog' = appendLog
                   /\ reservedCount' = reservedCount
                   /\ wakeupCh' = wakeupCh]_vars
    /\ [](\A r \in DOMAIN resv :
            resv[r].state = "refused"
                => /\ ~Executed(ResItem(r))
                   /\ \A q \in DOMAIN queue : queue[q] # ResItem(r)
                   /\ \A q \in DOMAIN local : local[q] # ResItem(r))

\* C2's case: a reservation taken by a work item of the first start was
\* refused, and the second start has run to its end.
C2_Witness ==
    /\ pc = "idle" /\ ret = "empty" /\ started = 2
    /\ \E r \in DOMAIN resv :
        resv[r].byItem /\ resv[r].gen = 1 /\ resv[r].state = "refused"

\* C3: once start has returned, the commit closure of a reservation taken
\* during that start returns false and appends nothing, before a later
\* start begins as well as after.
C3_CommitAfterReturnRefused ==
    [][\A r \in DOMAIN resv :
        (CommitCalled(r) /\ resv[r].byItem /\ StartReturned(r))
            => resv'[r].state = "refused" /\ queue' = queue]_vars

\* C4: a start that returns without cancellation has seen the commit of
\* every reservation its work items took, and has executed the committed
\* items.
C4_ReturnsAfterReservations ==
    (pc = "idle" /\ ret = "empty")
        => \A r \in DOMAIN resv :
            (resv[r].byItem /\ resv[r].gen = started)
                => /\ resv[r].state \in {"signal", "accepted"}
                   /\ Executed(ResItem(r))

\* C4's case: start has returned after a reservation of one of its work
\* items was committed while it was running.
C4_Witness ==
    /\ pc = "idle" /\ ret = "empty"
    /\ \E r \in DOMAIN resv :
        /\ resv[r].byItem /\ resv[r].gen = started
        /\ resv[r].state = "accepted"
        /\ Executed(ResItem(r))

\* C5: start calls no work item once the cancellation is observable, and
\* an item that is running is left to return.
C5_NoItemAfterCancel ==
    [][/\ execLog' # execLog => ~done
       /\ pc = "running" => pc' # "idle"]_vars

\* C5's case: start returned from inside a batch, after an item of this
\* generation had run, leaving an item of the batch unexecuted.
C5_Witness ==
    /\ pc = "idle" /\ ret = "cancelItem" /\ done
    /\ execLog # <<>> /\ execLog[Len(execLog)].gen = started
    /\ \E a \in DOMAIN appendLog :
        /\ appendLog[a].gen = started
        /\ ~Executed(appendLog[a].item)
        /\ \A q \in DOMAIN queue : queue[q] # appendLog[a].item

\* C6: two items appended under the same generation that are both
\* executed are executed in the order of their appends.
C6_Fifo ==
    \A a, b \in DOMAIN appendLog :
        (a < b /\ appendLog[a].gen = appendLog[b].gen)
            => \A p, q \in DOMAIN execLog :
                (execLog[p].item = appendLog[a].item
                    /\ execLog[q].item = appendLog[b].item) => p < q

\* C6's case: two committed items of one generation have both run, and so
\* has the seed before them.
C6_Witness ==
    \E a, b \in DOMAIN appendLog :
        /\ a < b
        /\ appendLog[a].gen = appendLog[b].gen
        /\ appendLog[a].item.k = "res" /\ appendLog[b].item.k = "res"
        /\ Executed(appendLog[a].item) /\ Executed(appendLog[b].item)
        /\ Executed(Seed(appendLog[a].gen))

\* C7: no item is executed twice; a start that returns without
\* cancellation has executed its seed and the items committed through the
\* reservations of its work items; and start blocks only while a
\* reservation of its generation is uncommitted or a wakeup is on its way,
\* so a seed that reserves nothing is run once and start returns.
C7_ExactlyOnce ==
    /\ \A p, q \in DOMAIN execLog :
        execLog[p].item = execLog[q].item => p = q
    /\ (pc = "idle" /\ ret = "empty")
        => /\ Executed(Seed(started))
           /\ \A r \in DOMAIN resv :
                (resv[r].byItem /\ resv[r].gen = started)
                    => Executed(ResItem(r))
    /\ pc = "wait"
        => \/ wakeupCh = 1
           \/ \E r \in DOMAIN resv :
                resv[r].gen = started /\ resv[r].state \in {"pending", "signal"}

\* C7's case: the first start, whose seed reserved nothing, has returned
\* after running the seed.
C7_Witness ==
    /\ pc = "idle" /\ ret = "empty" /\ started = 1
    /\ resv = <<>>
    /\ execLog = <<[item |-> Seed(1), gen |-> 1]>>

\* C8: a start blocked on an empty queue and a reservation returns once
\* the cancellation fires, with no commit needed, and runs no item after it.
C8_CancelUnblocks ==
    /\ (pc = "wait" /\ done) ~> (pc = "idle")
    /\ [][done => execLog' = execLog]_vars

\* C8's case: start has returned from its wait on the cancellation, the
\* reservation it waited for still uncommitted.
C8_Witness ==
    /\ pc = "idle" /\ ret = "cancelWait"
    /\ \E r \in DOMAIN resv :
        resv[r].gen = started /\ resv[r].state = "pending"

\* C9: start sets reservedCount to 0 as it increments the generation; the
\* new run returns when its queue is empty and the reservations of its own
\* generation are committed, whatever older reservations are pending; and
\* the commit of an older reservation is refused.
C9_RestartDropsReservations ==
    [][/\ started' # started
            => started' = started + 1 /\ reservedCount' = 0
       /\ (/\ pc = "acquire" /\ pc' # "acquire"
           /\ queue = <<>>
           /\ \A r \in DOMAIN resv :
                resv[r].gen = started => resv[r].state # "pending")
            => pc' = "idle" /\ ret' = "empty"
       /\ \A r \in DOMAIN resv :
            (CommitCalled(r) /\ resv[r].gen < started)
                => resv'[r].state = "refused" /\ queue' = queue]_vars

\* C9's case: the second start has returned, its own reservation
\* committed, while a reservation taken before it is still pending.
C9_Witness ==
    /\ pc = "idle" /\ ret = "empty" /\ started = 2
    /\ \E r \in DOMAIN resv :
        resv[r].gen < started /\ resv[r].state = "pending"
    /\ \E r \in DOMAIN resv :
        resv[r].gen = started /\ resv[r].state = "accepted"

\* C10: after a Run that began with Abort false and returned no error,
\* Abort is true exactly if some threshold failed, has AbortOnFail and has
\* a grace period that is invalid or shorter than the duration.
C10_AbortLatchedIff ==
    (lastRun.ran /\ ~lastRun.abortBefore /\ ~lastRun.err)
        => (abort <=>
            \E i \in DOMAIN thresholds :
                /\ ~runNoTaint(thresholds[i], sinked).passes
                /\ thresholds[i].AbortOnFail
                /\ \/ ~thresholds[i].AbortGracePeriod.Valid
                   \/ thresholds[i].AbortGracePeriod.Duration
                        < lastRun.duration)

\* C10's case: a threshold with AbortOnFail failed at a duration equal to
\* its grace period, and Abort is not latched.
C10_Witness ==
    /\ lastRun.ran /\ ~lastRun.abortBefore /\ ~lastRun.err
    /\ ~abort
    /\ \E i \in DOMAIN thresholds :
        /\ thresholds[i].LastFailed
        /\ thresholds[i].AbortOnFail
        /\ thresholds[i].AbortGracePeriod.Valid
        /\ thresholds[i].AbortGracePeriod.Duration = lastRun.duration

\* The condition of threshold t holds on the values of sinks.
Holds(t, sinks) ==
    Compare(t.parsed.Operator, sinks[t.parsed.AggregationMethod],
            t.parsed.Value)

\* The key of the aggregation method of threshold t is missing from sinks.
KeyMissing(t, sinks) == t.parsed.AggregationMethod \notin DOMAIN sinks

\* C11: Abort is a latch: a Run that begins with Abort true ends with Abort
\* true, whatever the sinks and the duration are.
C11_AbortStaysLatched == (lastRun.ran /\ lastRun.abortBefore) => abort

\* C11's case: Abort was true before the Run, and in that Run a threshold
\* with AbortOnFail failed within its grace period.
C11_Witness ==
    /\ lastRun.ran /\ lastRun.abortBefore /\ ~lastRun.err /\ abort
    /\ \E i \in DOMAIN thresholds :
        /\ thresholds[i].LastFailed
        /\ thresholds[i].AbortOnFail
        /\ thresholds[i].AbortGracePeriod.Valid
        /\ thresholds[i].AbortGracePeriod.Duration >= lastRun.duration

\* C12: a Run without an error returns true exactly when the condition of
\* every threshold holds on the value of the sink for its aggregation
\* method; with no threshold it returns true.
C12_RunIsConjunction ==
    (lastRun.ran /\ ~lastRun.err)
        => (lastRun.ok <=> \A i \in DOMAIN thresholds :
                                Holds(thresholds[i], sinked))

\* C12's case: of two thresholds the first holds and the second does not,
\* and Run returned false.
C12_Witness ==
    /\ lastRun.ran /\ ~lastRun.err /\ ~lastRun.ok
    /\ Len(thresholds) = 2
    /\ Holds(thresholds[1], sinked)
    /\ ~Holds(thresholds[2], sinked)

\* C13, as stated: after a Run, every threshold whose key is missing from
\* the sink has LastFailed true, and the Run returned (false, error).
C13_EveryMissingKeyFails ==
    lastRun.ran
        => \A i \in DOMAIN thresholds :
                KeyMissing(thresholds[i], sinked)
                    => /\ lastRun.err /\ ~lastRun.ok
                       /\ thresholds[i].LastFailed

\* C13, amended: when the key of some threshold is missing from the sink,
\* Run returns (false, error), and the first threshold in declaration
\* order whose key is missing has LastFailed true after the call.
C13_FirstMissingKeyFails ==
    lastRun.ran
        => \A i \in DOMAIN thresholds :
                (/\ KeyMissing(thresholds[i], sinked)
                 /\ \A h \in 1..(i - 1) : ~KeyMissing(thresholds[h], sinked))
                    => /\ lastRun.err /\ ~lastRun.ok
                       /\ thresholds[i].LastFailed

\* C13's case: the first threshold passed and the key of the second is
\* missing.
C13_Witness ==
    /\ lastRun.ran /\ lastRun.err
    /\ Len(thresholds) = 2
    /\ ~KeyMissing(thresholds[1], sinked) /\ ~thresholds[1].LastFailed
    /\ KeyMissing(thresholds[2], sinked) /\ thresholds[2].LastFailed

\* The call before this state was the UnmarshalJSON of what MarshalJSON had
\* returned for the receiver.
RoundTrip == call.op = "UnmarshalJSON" /\ call.own

\* C14, as stated: unmarshalling the output of MarshalJSON gives as many
\* thresholds in the same order, each with the Source, AbortOnFail and
\* AbortGracePeriod it had, with LastFailed and Abort false.
C14_RoundTripKeepsAll ==
    RoundTrip
        => /\ ~call.err
           /\ ~abort
           /\ Len(thresholds) = Len(call.before.Thresholds)
           /\ \A i \in DOMAIN thresholds :
                /\ thresholds[i].Source = call.before.Thresholds[i].Source
                /\ thresholds[i].AbortOnFail
                        = call.before.Thresholds[i].AbortOnFail
                /\ thresholds[i].AbortGracePeriod
                        = call.before.Thresholds[i].AbortGracePeriod
                /\ ~thresholds[i].LastFailed

\* C14, amended: the same, except that AbortGracePeriod comes back as it
\* was only for a threshold with AbortOnFail, and as the zero value for a
\* threshold without.
C14_RoundTripKeepsAbortingGrace ==
    RoundTrip
        => /\ ~call.err
           /\ ~abort
           /\ Len(thresholds) = Len(call.before.Thresholds)
           /\ \A i \in DOMAIN thresholds :
                /\ thresholds[i].Source = call.before.Thresholds[i].Source
                /\ thresholds[i].AbortOnFail
                        = call.before.Thresholds[i].AbortOnFail
                /\ thresholds[i].AbortGracePeriod
                        = IF thresholds[i].AbortOnFail
                          THEN call.before.Thresholds[i].AbortGracePeriod
                          ELSE [Valid |-> FALSE, Duration |-> 0]
                /\ ~thresholds[i].LastFailed

\* C14's case: the receiver had Abort true and a failed threshold with
\* AbortOnFail and a grace period.
C14_Witness ==
    /\ RoundTrip
    /\ call.before.Abort
    /\ \E i \in DOMAIN thresholds :
        /\ call.before.Thresholds[i].LastFailed
        /\ call.before.Thresholds[i].AbortOnFail
        /\ call.before.Thresholds[i].AbortGracePeriod.Valid

\* C15: an UnmarshalJSON that returns an error leaves the Thresholds list,
\* Abort and sinked of the receiver as they were.
C15_FailedUnmarshalKeepsReceiver ==
    (call.op = "UnmarshalJSON" /\ call.err) => Receiver = call.before

\* C15's case: the source of an element did not parse, and the receiver
\* held thresholds, Abort true and values in sinked.
C15_Witness ==
    /\ call.op = "UnmarshalJSON" /\ call.err
    /\ call.data.kind = "array"
    /\ thresholds # <<>> /\ abort /\ DOMAIN sinked # {}

\* C16: MarshalJSON gives an array with one element per threshold, in
\* order: the source as a string for a threshold without AbortOnFail, an
\* object with threshold, abortOnFail and delayAbortEval for one with.
C16_MarshalForms ==
    call.op = "MarshalJSON"
        => /\ call.data.kind = "array"
           /\ Len(call.data.elems) = Len(thresholds)
           /\ \A i \in DOMAIN thresholds :
                LET e == call.data.elems[i]
                    t == thresholds[i]
                IN  /\ e.kind = (IF t.AbortOnFail THEN "object" ELSE "string")
                    /\ e.kind = "string" => e.runes = t.Source
                    /\ e.kind = "object" =>
                        /\ DOMAIN e.fields
                            = {"threshold", "abortOnFail", "delayAbortEval"}
                        /\ e.fields["threshold"] = JsonString(t.Source)
                        /\ e.fields["abortOnFail"] = JsonBool(TRUE)

\* C16's case: a threshold without AbortOnFail before one with.
C16_Witness ==
    /\ call.op = "MarshalJSON"
    /\ Len(thresholds) = 2
    /\ ~thresholds[1].AbortOnFail /\ call.data.elems[1].kind = "string"
    /\ thresholds[2].AbortOnFail /\ call.data.elems[2].kind = "object"

\* The sources of a call of NewThresholds that do not parse.
Unparseable(sources) ==
    {i \in DOMAIN sources : parseThresholdCondition(sources[i]).err}

\* C17: NewThresholds fails on the first source that does not parse, with
\* an aggregate without thresholds, or gives one Threshold per source in
\* order, with its parsed condition, its Source, LastFailed and AbortOnFail
\* false, and with Abort false and sinked empty.
C17_NewThresholds ==
    (call.op = "NewThresholds" /\ call.done)
        => LET bad == Unparseable(call.sources)
               res == call.result
           IN  IF bad # {}
               THEN /\ res.err
                    /\ \A i \in bad : res.index + 1 <= i
                    /\ res.index + 1 \in bad
                    /\ res.ts.Thresholds = <<>>
               ELSE /\ ~res.err
                    /\ Len(res.ts.Thresholds) = Len(call.sources)
                    /\ \A i \in DOMAIN call.sources :
                        LET t == res.ts.Thresholds[i]
                        IN  /\ t.Source = call.sources[i]
                            /\ t.parsed = parseThresholdCondition(
                                            call.sources[i]).condition
                            /\ ~t.LastFailed
                            /\ ~t.AbortOnFail
                    /\ ~res.ts.Abort
                    /\ DOMAIN res.ts.sinked = {}

\* C17's case: two sources, different, neither of which parses.
C17_Witness ==
    /\ call.op = "NewThresholds" /\ call.done
    /\ Unparseable(call.sources) = {1, 2}
    /\ call.sources[1] # call.sources[2]
    /\ call.result.err /\ call.result.index = 0

\* C18: Threshold.run leaves LastFailed as the negation of the result it
\* returns, whatever LastFailed was before.
C18_LastFailedIsNegation ==
    call.op = "run" => call.t.LastFailed = ~call.passes

\* C18's case: a threshold that had failed passes.
C18_Witness ==
    /\ call.op = "run"
    /\ call.before.LastFailed
    /\ call.passes /\ ~call.t.LastFailed

\* C19: Threshold.runNoTaint returns what run returns for the same sinks,
\* and leaves every field of the threshold as it was.
C19_RunNoTaintFrame ==
    call.op = "runNoTaint"
        => /\ call.t = call.before
           /\ call.passes = run(call.before, call.sinks).passes
           /\ call.err = run(call.before, call.sinks).err

\* C19's case: a threshold that had passed fails under runNoTaint, without
\* an error.
C19_Witness ==
    /\ call.op = "runNoTaint"
    /\ ~call.before.LastFailed
    /\ ~call.passes /\ ~call.err

\* The seven operators, as runes.
OperatorRunes ==
    {<<">", "=">>, <<"<", "=">>, <<">">>, <<"<">>, <<"=", "=", "=">>,
     <<"=", "=">>, <<"!", "=">>}

\* C20: on an input that begins with ">=", "<=" or "===" ParseOperator
\* gives that operator and leaves what follows it; on an input that is one
\* of the seven operators it gives that operator and leaves nothing.
C20_LongestOperator ==
    (call.op = "ParseOperator" /\ call.done)
        => /\ \A o \in {<<">", "=">>, <<"<", "=">>, <<"=", "=", "=">>} :
                HasPrefix(o, call.input)
                    => /\ ~call.result.Err
                       /\ call.result.Payload = Str(o)
                       /\ call.result.Remaining = Drop(call.input, Len(o))
           /\ \A o \in OperatorRunes :
                call.input = o
                    => /\ ~call.result.Err
                       /\ call.result.Payload = Str(o)
                       /\ call.result.Remaining = <<>>

\* C20's case: the input ">=1".
C20_Witness ==
    /\ call.op = "ParseOperator" /\ call.done
    /\ call.input = <<">", "=", "1">>
    /\ call.result.Payload = ">="
    /\ call.result.Remaining = <<"1">>

\* The rune sequence s is a float: digits, with an optional '-' before them
\* and an optional '.' and digits after them.
IsFloatText(s) ==
    LET u == IF s # <<>> /\ s[1] = "-" THEN Tail(s) ELSE s
    IN  \E n \in 1..Len(u) :
            /\ \A k \in 1..n : u[k] \in DigitSet
            /\ \/ n = Len(u)
               \/ /\ n + 2 <= Len(u)
                  /\ u[n + 1] = "."
                  /\ \A k \in (n + 2)..Len(u) : u[k] \in DigitSet

\* The value of a float, in units of 10^-FracDigits.
FloatValue(s) ==
    LET neg == s[1] = "-"
        u == IF neg THEN Tail(s) ELSE s
        n == CHOOSE n \in 1..Len(u) :
                /\ \A k \in 1..n : u[k] \in DigitSet
                /\ n = Len(u) \/ u[n + 1] = "."
        abs == Number(SubSeq(u, 1, n)) * Scale
                + Fraction(SubSeq(u, n + 2, Len(u)))
    IN  IF neg THEN 0 - abs ELSE abs

\* The rune sequence s is p(<float>).
IsPercentileText(s) ==
    /\ Len(s) >= 4
    /\ s[1] = "p" /\ s[2] = "(" /\ s[Len(s)] = ")"
    /\ IsFloatText(SubSeq(s, 3, Len(s) - 1))

\* The rune sequence s is an aggregation method.
IsMethodText(s) ==
    \/ Str(s) \in {"count", "rate", "value", "mean", "min", "max", "avg",
                   "med"}
    \/ IsPercentileText(s)

\* The name of the aggregation method s: a percentile is written with the
\* shortest decimal of its float.
MethodName(s) ==
    IF IsPercentileText(s)
    THEN "p(" \o FormatG(FloatValue(SubSeq(s, 3, Len(s) - 1))) \o ")"
    ELSE Str(s)

IsBlank(s) == \A k \in DOMAIN s : s[k] \in {" ", "\t"}

\* The ways to read a prefix of e as an assertion: <<i, j, k, l, n>> where
\* the method ends at i, the blanks after it at j, the operator at k, the
\* blanks after it at l and the float at n.
MethodEnds(e) == {i \in 1..Len(e) : IsMethodText(SubSeq(e, 1, i))}
BlankEnds(e, i) == {j \in i..Len(e) : IsBlank(SubSeq(e, i + 1, j))}
OperatorEnds(e, j) ==
    {k \in (j + 1)..Len(e) : SubSeq(e, j + 1, k) \in OperatorRunes}
FloatEnds(e, l) == {n \in (l + 1)..Len(e) : IsFloatText(SubSeq(e, l + 1, n))}

Readings(e) ==
    UNION {UNION {UNION {UNION {{<<i, j, k, l, n>> : n \in FloatEnds(e, l)} :
        l \in BlankEnds(e, k)} : k \in OperatorEnds(e, j)} :
        j \in BlankEnds(e, i)} : i \in MethodEnds(e)}

\* The condition of the reading r of e.
ReadingCondition(e, r) ==
    [AggregationMethod |-> MethodName(SubSeq(e, 1, r[1])),
     Operator |-> Str(SubSeq(e, r[2] + 1, r[3])),
     Value |-> FloatValue(SubSeq(e, r[4] + 1, r[5]))]

C22_NoLostWakeup ==
    \A r \in 1..LiveRes :
        (/\ r \in DOMAIN resv
         /\ resv[r].state = "accepted" /\ resv[r].gen = started
         /\ pc # "idle")
            ~> (Executed(ResItem(r)) \/ done)

\* C22's case: the consumer found the queue empty and a spot reserved and
\* waits; the commit has appended its item since and left its signal.
C22_Witness ==
    /\ pc = "wait" /\ ~done
    /\ wakeupCh = 1
    /\ \E r \in DOMAIN resv :
        /\ resv[r].state = "accepted" /\ resv[r].gen = started
        /\ \E q \in DOMAIN queue : queue[q] = ResItem(r)

\* C23: whatever token is in the channel, start returns without
\* cancellation only when no reservation of the current generation is
\* uncommitted and every item appended under the current generation has
\* been executed; no item is executed twice; and the receipt of a token
\* changes nothing but the channel and the consumer's position, which goes
\* back to the top of the loop.
C23_StaleTokenHarmless ==
    /\ [][/\ (pc # "idle" /\ pc' = "idle" /\ ret' = "empty")
                => /\ \A r \in DOMAIN resv :
                        resv[r].gen = started => resv[r].state # "pending"
                   /\ \A a \in DOMAIN appendLog :
                        appendLog[a].gen = started
                            => Executed(appendLog[a].item)
          /\ (pc = "wait" /\ pc' # "wait" /\ ~done)
                => /\ wakeupCh = 1 /\ wakeupCh' = 0
                   /\ pc' = "check"
                   /\ UNCHANGED <<queue, started, reservedCount, local, idx,
                                  ret, resv, appendLog, execLog>>]_vars
    /\ [](\A p, q \in DOMAIN execLog :
            execLog[p].item = execLog[q].item => p = q)

\* C23's case: the consumer waits for the uncommitted reservation of the
\* current generation with a token in the channel that announces nothing:
\* the queue is empty and the item of every accepted commit has been
\* executed.
C23_Witness ==
    /\ pc = "wait" /\ ~done
    /\ wakeupCh = 1
    /\ queue = <<>>
    /\ \E r \in DOMAIN resv :
        resv[r].gen = started /\ resv[r].state = "pending"
    /\ \E r \in DOMAIN resv :
        resv[r].state = "accepted" /\ Executed(ResItem(r))
    /\ \A r \in DOMAIN resv : resv[r].state \in {"pending", "accepted"}

\* C24: each commit closure being called at most once, reservedCount is the
\* number of reservations taken under the current generation whose commit
\* has not been accepted; the reservations of earlier generations count
\* for nothing.
C24_ReservedCountIsPending ==
    reservedCount =
        Cardinality({r \in DOMAIN resv :
                        resv[r].gen = started /\ resv[r].state = "pending"})

\* C24's case: in the second generation, with an uncommitted reservation
\* of the first generation and an uncommitted one of the second.
C24_Witness ==
    /\ started = 2
    /\ reservedCount = 1
    /\ \E r \in DOMAIN resv : resv[r].gen = 1 /\ resv[r].state = "pending"
    /\ \E r \in DOMAIN resv : resv[r].gen = 2 /\ resv[r].state = "pending"

\* C25: each commit closure being called at most once, reservedCount is
\* never negative, whatever the order of the calls of reserve, of the
\* commit closures, of start and of the cancellation.
C25_ReservedCountNonNegative == reservedCount >= 0

\* C25's case: the commit closure of a reservation taken before a restart
\* has been called after it, with reservedCount at 0.
C25_Witness ==
    /\ started = 2
    /\ reservedCount = 0
    /\ \E r \in DOMAIN resv : resv[r].gen = 1 /\ resv[r].state = "refused"

\* C26: whenever no call of start is in progress, the queue is empty and
\* reservedCount is 0.
C26_IdleIsEmpty == pc = "idle" => (queue = <<>> /\ reservedCount = 0)

\* The first threshold of ths whose key is missing from sinks.
FirstMissing(ths, sinks) ==
    CHOOSE i \in DOMAIN ths :
        /\ KeyMissing(ths[i], sinks)
        /\ \A j \in 1..(i - 1) : ~KeyMissing(ths[j], sinks)

\* C27: when the evaluation of threshold i returns an error during Run,
\* Run returns the error, the thresholds after i keep the LastFailed they
\* had, and Abort is what the thresholds before i made it: the threshold
\* in error does not set it, whatever its AbortOnFail and grace period.
C27_ErrorStopsEvaluation ==
    [][(\E i \in DOMAIN thresholds : KeyMissing(thresholds[i], sinked'))
        => /\ lastRun'.err
           /\ \A j \in DOMAIN thresholds :
                j > FirstMissing(thresholds, sinked')
                    => thresholds'[j].LastFailed = thresholds[j].LastFailed
           /\ abort' <=>
                \/ abort
                \/ \E j \in 1..(FirstMissing(thresholds, sinked') - 1) :
                    /\ ~Holds(thresholds[j], sinked')
                    /\ thresholds[j].AbortOnFail
                    /\ \/ ~thresholds[j].AbortGracePeriod.Valid
                       \/ thresholds[j].AbortGracePeriod.Duration
                            < lastRun'.duration]_vars

\* C27's case: the first threshold, with AbortOnFail and no grace period,
\* was in error; Abort is false, and the second threshold still has the
\* LastFailed of an earlier Run though its condition holds on the sink.
C27_Witness ==
    /\ lastRun.ran /\ lastRun.err
    /\ ~abort
    /\ Len(thresholds) = 2
    /\ KeyMissing(thresholds[1], sinked)
    /\ thresholds[1].AbortOnFail /\ ~thresholds[1].AbortGracePeriod.Valid
    /\ ~KeyMissing(thresholds[2], sinked)
    /\ Holds(thresholds[2], sinked)
    /\ thresholds[2].LastFailed

\* C28: after a Run, sinked holds the pairs that the sink's Format returned
\* for that call and no other, and the Run returned an error exactly if
\* the key of some threshold is missing from those pairs, whatever an
\* earlier sink held for it.
C28_SinkedIsLastFormat ==
    call.op = "Run"
        => /\ DOMAIN sinked = DOMAIN call.sink
           /\ \A k \in DOMAIN call.sink : sinked[k] = call.sink[k]
           /\ lastRun.err <=>
                \E i \in DOMAIN thresholds :
                    thresholds[i].parsed.AggregationMethod
                        \notin DOMAIN call.sink

\* C28's case: the Run was given a sink without the key of the first
\* threshold and returned an error, after a Run whose sink had that key
\* (it went on to the second threshold, which failed).
C28_Witness ==
    /\ call.op = "Run"
    /\ lastRun.err
    /\ Len(thresholds) = 2
    /\ thresholds[1].parsed.AggregationMethod \notin DOMAIN call.sink
    /\ thresholds[1].parsed.AggregationMethod \notin DOMAIN sinked
    /\ thresholds[2].parsed.AggregationMethod
            # thresholds[1].parsed.AggregationMethod
    /\ thresholds[2].LastFailed

\* C29: a threshold with the operator "===" passes exactly if the sink's
\* value equals the threshold's value and is in error exactly if the key
\* is missing, as the same threshold with "==" does, whatever the two
\* values; with an operator that is none of the seven, runNoTaint returns
\* false and an error.
C29_StrictEqualsIsEquals ==
    (call.op = "runNoTaint" /\ call.done)
        => /\ call.before.parsed.Operator = "==="
                => /\ call.err <=> KeyMissing(call.before, call.sinks)
                   /\ call.passes <=>
                        /\ ~KeyMissing(call.before, call.sinks)
                        /\ call.sinks[call.before.parsed.AggregationMethod]
                                = call.before.parsed.Value
                   /\ call.passes =
                        runNoTaint([call.before EXCEPT
                                        !.parsed.Operator = "=="],
                                   call.sinks).passes
                   /\ call.err =
                        runNoTaint([call.before EXCEPT
                                        !.parsed.Operator = "=="],
                                   call.sinks).err
           /\ call.before.parsed.Operator \notin
                    {Str(o) : o \in OperatorRunes}
                => ~call.passes /\ call.err

\* C29's case: a threshold with "===" passes on a sink that has its value.
C29_Witness ==
    /\ call.op = "runNoTaint" /\ call.done
    /\ call.before.parsed.Operator = "==="
    /\ ~KeyMissing(call.before, call.sinks)
    /\ call.passes /\ ~call.err

\* The readings of e that end furthest in e.
LongestReadings(e) ==
    {r \in Readings(e) : \A q \in Readings(e) : q[5] <= r[5]}

\* C30: whenever a prefix of the expression reads as an assertion,
\* parseThresholdCondition returns no error and the condition of the
\* longest such prefix, whatever follows it in the expression: blanks, a
\* newline or any other text.
C30_TrailingTextIgnored ==
    (/\ call.op = "parseThresholdCondition" /\ call.done
     /\ Readings(call.expression) # {})
        => /\ ~call.result.err
           /\ \E r \in LongestReadings(call.expression) :
                call.result.condition = ReadingCondition(call.expression, r)

\* C30's case: "count<100x" gives the condition of "count<100".
C30_Witness ==
    /\ call.op = "parseThresholdCondition" /\ call.done
    /\ call.expression =
            <<"c", "o", "u", "n", "t", "<", "1", "0", "0", "x">>
    /\ ~call.result.err
    /\ call.result.condition =
            [AggregationMethod |-> "count", Operator |-> "<",
             Value |-> 100 * Scale]

====
